---- MODULE Spec2Model ----
(***************************************************************************)
(* Voice Cloning Orchestrator (src/main.py): the POST /clone-voice         *)
(* workflow, run by concurrent request handlers against a shared bucket    *)
(* and two outbound collaborators (pyglue, ElevenLabs).                    *)
(*                                                                         *)
(* Python values are modelled as strings; None is NoneVal.  A request      *)
(* handler is a worker thread of the HTTP server: it serves one request    *)
(* at a time, from arrival to its response, and then the next one.         *)
(* Every call that leaves the process (bucket, pyglue, ElevenLabs) is one  *)
(* step; the local computation around it belongs to the same step.         *)
(***************************************************************************)
EXTENDS Integers, Sequences, FiniteSets, TLC

\* ------------------------------------------------------------------ bounds
\* Requests served in one behaviour.
MaxRequests == 2

\* Server threads handling requests concurrently.
Workers == {"w1", "w2"}

\* User identifiers clients send.
Users == {"u1", "u2"}

\* ------------------------------------------------------------ Python values
NoneVal == "<None>"

\* Python truthiness of a string-or-None value (`not x` is ~Truthy(x)).
Truthy(x) == x # NoneVal /\ x # ""

\* dict.get(key, default) on a JSON object modelled as a record.
Get(doc, key, default) == IF key \in DOMAIN doc THEN doc[key] ELSE default

\* ------------------------------------------------------------ configuration
\* os.getenv('API_KEY'): the shared secret, or None when the variable is unset.
ApiKeyConfigs == {NoneVal, "k1"}

\* ------------------------------------------------------------------ inputs
\* Value of one request header; NoneVal is an absent header.
HeaderValues == {NoneVal, "", "bad", "k1"}

\* What request.get_json() finds in the body, drawn when the handler reads it:
\*   "unparseable"  get_json() raises (no body, wrong content type, bad JSON)
\*   "null", "array" valid JSON that is not an object
\*   "object"       a JSON object, doc
Bodies ==
    {[kind |-> "unparseable", doc |-> [event |-> "none"]],
     [kind |-> "null", doc |-> [event |-> "none"]],
     [kind |-> "array", doc |-> [event |-> "none"]],
     [kind |-> "object", doc |-> [event |-> "recording_saved"]],
     [kind |-> "object", doc |-> [userId |-> NoneVal]],
     [kind |-> "object", doc |-> [userId |-> ""]]}
    \cup {[kind |-> "object", doc |-> [userId |-> u, event |-> "recording_saved"]] : u \in Users}

NoRequest == [kind |-> "none"]

\* The body of a request the handler has not read yet.
Unread == [kind |-> "unread", doc |-> [event |-> "none"]]

\* ------------------------------------------------------------------ bucket
VoiceIdPath(user_id) == user_id \o "/voice_id/voice_id.json"
\* Mutant: the listing is not narrowed to the user.
RecordingsPrefixShared(user_id) == "recordings/"

RecordingsPrefix(user_id) == user_id \o "/recordings/"
CredsPath(user_id) == user_id \o "/credentials/login_credentials.json"

MarkerPaths == {VoiceIdPath(u) : u \in Users}

NoBlob == [kind |-> "absent"]

\* The document save_voice_id uploads.
VoiceIdData(user_id, voice_id) ==
    [userId |-> user_id, voice_id |-> voice_id, user_voice_id |-> voice_id,
     created_at |-> "auto", version |-> 1]

\* Marker blobs the bucket may hold before the first request: none, one
\* written by an earlier run of the service, or one whose text is not JSON.
InitialMarkers(u) ==
    {NoBlob,
     [kind |-> "json", doc |-> VoiceIdData(u, "v0")],
     [kind |-> "text"]}

\* ------------------------------------------------------------------- state
VARIABLES
    API_KEY,    \* the configured shared secret
    bucket,     \* marker blobs: path -> blob
    voices,     \* number of voices ElevenLabs has created
    served,     \* requests received so far
    pc,         \* per worker: the step of its request
    request,    \* per worker: the HTTP request (headers, body) while it is read
    local,      \* per worker: the handler's local variables (gone once it returns)
    response,   \* per worker: the response returned
    calls       \* per worker: the outbound calls of the current request, in order

vars == <<API_KEY, bucket, voices, served, pc, request, local, response, calls>>

Terminal ==
    {"UNAUTHORIZED", "MISSING_INPUT", "SKIPPED", "INSUFFICIENT", "CONCAT_FAILED",
     "CLONE_FAILED", "SUCCESS", "SUCCESS_WITH_PERSIST_WARNING", "UNHANDLED_ERROR"}

NoAudioInfo == [duration_seconds |-> [num |-> 0, den |-> 1], file_count |-> 0, total_bytes |-> 0]

NoLocals ==
    [user_id |-> NoneVal, existing_voice |-> NoneVal, audio_info |-> NoAudioInfo,
     concatenated_audio |-> NoneVal, first_name |-> NoneVal, last_name |-> NoneVal,
     voice_id |-> NoneVal]

NoResponse == [status |-> 0]

Init ==
    /\ API_KEY \in ApiKeyConfigs
    /\ bucket \in {b \in [MarkerPaths -> UNION {InitialMarkers(u) : u \in Users}] :
                     \A u \in Users : b[VoiceIdPath(u)] \in InitialMarkers(u)}
    /\ voices = 0
    /\ served = 0
    /\ pc = [w \in Workers |-> "idle"]
    /\ request = [w \in Workers |-> NoRequest]
    /\ local = [w \in Workers |-> NoLocals]
    /\ response = [w \in Workers |-> NoResponse]
    /\ calls = [w \in Workers |-> <<>>]

\* --------------------------------------------------------- require_api_key
\* request.headers.get('API_KEY') or request.headers.get('X-API-Key')
ProvidedKey(headers) ==
    IF Truthy(headers.API_KEY) THEN headers.API_KEY ELSE headers.X_API_Key

\* Mutant: the comparison with the configured secret is left out.
KeyAcceptedAnyKey(headers, api_key) == Truthy(ProvidedKey(headers))

\* not (not provided_key or provided_key != API_KEY)
KeyAccepted(headers, api_key) ==
    ~(~Truthy(ProvidedKey(headers)) \/ ProvidedKey(headers) # api_key)

UnauthorizedResponse == [status |-> 401, error |-> "Unauthorized: Invalid API key"]

\* A request arrives at a free worker, which runs decorated_function.  The
\* decorator reads the two headers only; the body is read by the handler.
Receive(w) ==
    /\ pc[w] \in {"idle"} \cup Terminal
    /\ served < MaxRequests
    /\ \E h1 \in HeaderValues, h2 \in HeaderValues :
        LET req == [headers |-> [API_KEY |-> h1, X_API_Key |-> h2], body |-> Unread] IN
        /\ request' = [request EXCEPT ![w] = req]
        /\ IF KeyAccepted(req.headers, API_KEY)
           THEN /\ pc' = [pc EXCEPT ![w] = "HANDLER"]
                /\ response' = [response EXCEPT ![w] = NoResponse]
           ELSE /\ pc' = [pc EXCEPT ![w] = "UNAUTHORIZED"]
                /\ response' = [response EXCEPT ![w] = UnauthorizedResponse]
    /\ served' = served + 1
    /\ local' = [local EXCEPT ![w] = NoLocals]
    /\ calls' = [calls EXCEPT ![w] = <<>>]
    /\ UNCHANGED <<API_KEY, bucket, voices>>

\* ------------------------------------------------------------- clone_voice
\* Mutant: the catch-all answers with a fixed message, not the exception's text.
UnhandledResponseGeneric(text) ==
    [status |-> 500, success |-> FALSE, error |-> "Internal server error"]

\* The catch-all of clone_voice: except Exception as e.
UnhandledResponse(text) == [status |-> 500, success |-> FALSE, error |-> text]

MissingUserIdResponse == [status |-> 400, error |-> "Missing userId"]

\* What lines 211-215 do with body b: raise, reject, or go on.
\* get_json() raises on a body it cannot parse; data.get raises on JSON that
\* is not an object; a falsy userId is rejected.
BodyVerdict(b) ==
    IF b.kind = "unparseable" THEN "get_json_raises"
    ELSE IF b.kind # "object" THEN "get_raises"
    ELSE IF ~Truthy(Get(b.doc, "userId", NoneVal)) THEN "missing"
    ELSE "ok"

\* Lines 211-219: read the body, take userId, reject a falsy one.
\* Past line 215 the handler reads the request no more: it is released.
ReadBody(w) ==
    /\ pc[w] = "HANDLER"
    /\ \E b \in Bodies :
        LET verdict == BodyVerdict(b) IN
        IF verdict = "ok"
        THEN /\ pc' = [pc EXCEPT ![w] = "IDEMPOTENCE_CHECK"]
             /\ local' = [local EXCEPT ![w].user_id = b.doc.userId]
             /\ request' = [request EXCEPT ![w] = NoRequest]
             /\ UNCHANGED response
        ELSE /\ request' = [request EXCEPT ![w].body = b]
             /\ UNCHANGED local
             /\ IF verdict = "missing"
                THEN /\ pc' = [pc EXCEPT ![w] = "MISSING_INPUT"]
                     /\ response' = [response EXCEPT ![w] = MissingUserIdResponse]
                ELSE /\ pc' = [pc EXCEPT ![w] = "UNHANDLED_ERROR"]
                     /\ response' = [response EXCEPT ![w] =
                            UnhandledResponse(IF verdict = "get_json_raises"
                                              THEN "400 Bad Request"
                                              ELSE "object has no attribute 'get'")]
    /\ UNCHANGED <<API_KEY, bucket, voices, served, calls>>

\* ------------------------------------------------------ check_voice_exists
\* What the two bucket calls of check_voice_exists can do.
CheckOutcomes == {"ok", "exists_raises", "download_raises"}

\* check_voice_exists(user_id) against marker blob `blob`: the value returned.
\* blob.exists() and blob.download_as_text() only read the marker, and a marker
\* is never deleted, so reading both at one instant loses no interleaving.
\* Mutant: the identifier is looked up under another key.
ExistingVoiceOtherKey(blob, outcome) ==
    IF outcome = "exists_raises" THEN NoneVal
    ELSE IF blob = NoBlob THEN NoneVal
    ELSE IF outcome = "download_raises" THEN NoneVal
    ELSE IF blob.kind # "json" THEN NoneVal
    ELSE Get(blob.doc, "voiceId", NoneVal)

ExistingVoice(blob, outcome) ==
    IF outcome = "exists_raises" THEN NoneVal
    ELSE IF blob = NoBlob THEN NoneVal
    ELSE IF outcome = "download_raises" THEN NoneVal
    ELSE IF blob.kind # "json" THEN NoneVal
    ELSE Get(blob.doc, "voice_id", NoneVal)

SkippedResponse(existing_voice) ==
    [status |-> 200, success |-> TRUE, message |-> "Voice already exists",
     voice_id |-> existing_voice, skipped |-> TRUE]

\* Step 1 (lines 221-230).  The call log keeps whether the marker was in the
\* bucket when it was checked.
CheckVoiceExistsWith(w, outcome) ==
    /\ pc[w] = "IDEMPOTENCE_CHECK"
    /\ LET user_id == local[w].user_id
           blob == bucket[VoiceIdPath(user_id)]
           existing_voice == ExistingVoice(blob, outcome)
       IN
        /\ outcome = "download_raises" => blob # NoBlob
        /\ calls' = [calls EXCEPT ![w] =
               Append(@, [op |-> "check", arg |-> VoiceIdPath(user_id),
                          present |-> blob # NoBlob])]
        /\ IF Truthy(existing_voice)
           THEN /\ pc' = [pc EXCEPT ![w] = "SKIPPED"]
                /\ response' = [response EXCEPT ![w] = SkippedResponse(existing_voice)]
                /\ local' = [local EXCEPT ![w] = NoLocals]
           ELSE /\ pc' = [pc EXCEPT ![w] = "DURATION_CHECK"]
                /\ local' = [local EXCEPT ![w].existing_voice = existing_voice]
                /\ UNCHANGED response
    /\ UNCHANGED <<API_KEY, bucket, voices, served, request>>

CheckVoiceExists(w) == \E outcome \in CheckOutcomes : CheckVoiceExistsWith(w, outcome)

\* ------------------------------------------------ calculate_audio_duration
\* Blobs under a user's recordings prefix, as list_blobs returns them (name
\* below the prefix, size in bytes).  Recordings are uploaded by another
\* service; each listing may find any of these inventories.
TenFiles == [i \in 1..10 |-> [name |-> "q" \o ToString(i) \o ".mp3", size |-> 49152]]

Inventories ==
    {<<>>,
     <<[name |-> "notes.txt", size |-> 500000], [name |-> "q1.MP3", size |-> 500000],
       [name |-> "q2.mp3", size |-> 4096]>>,
     <<[name |-> "q1.mp3", size |-> 122880], [name |-> "q2.wav", size |-> 122879]>>,
     <<[name |-> "q1.webm", size |-> 122880], [name |-> "q2.m4a", size |-> 122880],
       [name |-> "q3.wav", size |-> 0], [name |-> "q4.txt", size |-> 4096]>>,
     <<[name |-> "q1.mp3", size |-> 250000]>>,
     TenFiles}

\* str.endswith
EndsWith(s, suffix) ==
    /\ Len(s) >= Len(suffix)
    /\ SubSeq(s, Len(s) - Len(suffix) + 1, Len(s)) = suffix

AudioSuffixes == {".mp3", ".wav", ".webm", ".m4a"}

\* [b for b in blobs if b.name.endswith(('.mp3', '.wav', '.webm', '.m4a'))]
RECURSIVE AudioFiles(_)
AudioFiles(blobs) ==
    IF blobs = <<>> THEN <<>>
    ELSE IF \E suffix \in AudioSuffixes : EndsWith(Head(blobs).name, suffix)
         THEN <<Head(blobs)>> \o AudioFiles(Tail(blobs))
         ELSE AudioFiles(Tail(blobs))

\* sum(blob.size for blob in audio_files if blob.size)
RECURSIVE SumSizes(_)
SumSizes(audio_files) ==
    IF audio_files = <<>> THEN 0
    ELSE (IF Head(audio_files).size # 0 THEN Head(audio_files).size ELSE 0)
         + SumSizes(Tail(audio_files))

\* Python's true division by a power of two is exact for these magnitudes:
\* the quotient is kept as the fraction num/den.
Div(x, k) == [num |-> x.num, den |-> x.den * k]

\* Mutant: <= instead of <.
LessOrEqual(x, k) == x.num <= k * x.den

\* x < k for a fraction x and an integer k.
LessThan(x, k) == x.num < k * x.den

KB == 1024
KBPerSecond == 16

\* Mutant: only the files that have a size are counted.
FileCountSized(audio_files) == Len(SelectSeq(audio_files, LAMBDA b : b.size # 0))

\* len(audio_files)
FileCount(audio_files) == Len(audio_files)

\* calculate_audio_duration, given the listing.
AudioInfo(blobs) ==
    LET audio_files == AudioFiles(blobs)
        total_bytes == SumSizes(audio_files)
        total_kb == Div([num |-> total_bytes, den |-> 1], KB)
        estimated_duration == Div(total_kb, KBPerSecond)
    IN [duration_seconds |-> estimated_duration,
        file_count |-> FileCount(audio_files),
        total_bytes |-> total_bytes]

\* round(x, 1) of a non-negative fraction, in tenths: the nearest tenth, a
\* tie going to the even one (x is exact in binary, so ties are real ties).
Round1(x) ==
    LET q == (x.num * 10) \div x.den
        r == (x.num * 10) % x.den
    IN IF 2 * r < x.den THEN q
       ELSE IF 2 * r > x.den THEN q + 1
       ELSE IF q % 2 = 0 THEN q ELSE q + 1

RequiredSeconds == 15

\* audio_info['duration_seconds'] < 15
Insufficient(audio_info) == LessThan(audio_info.duration_seconds, RequiredSeconds)

\* `actual` is in tenths of a second.
InsufficientResponse(audio_info) ==
    [status |-> 400, success |-> FALSE, error |-> "Insufficient audio duration",
     required |-> RequiredSeconds, actual |-> Round1(audio_info.duration_seconds),
     file_count |-> audio_info.file_count]

\* Step 2 (lines 232-245).  list_blobs may raise: nothing in
\* calculate_audio_duration catches it, so the catch-all of clone_voice does.
\* The call log keeps the listing, blobs (<<>> when the call raised).
CalculateAudioDuration(w) ==
    /\ pc[w] = "DURATION_CHECK"
    /\ \/ /\ pc' = [pc EXCEPT ![w] = "UNHANDLED_ERROR"]
          /\ response' = [response EXCEPT ![w] = UnhandledResponse("list_blobs failed")]
          /\ local' = [local EXCEPT ![w] = NoLocals]
          /\ calls' = [calls EXCEPT ![w] =
                 Append(@, [op |-> "list", arg |-> RecordingsPrefix(local[w].user_id),
                            raised |-> TRUE, blobs |-> <<>>])]
       \/ \E blobs \in Inventories :
            LET audio_info == AudioInfo(blobs) IN
            /\ calls' = [calls EXCEPT ![w] =
                   Append(@, [op |-> "list", arg |-> RecordingsPrefix(local[w].user_id),
                              raised |-> FALSE, blobs |-> blobs])]
            /\ IF Insufficient(audio_info)
               THEN /\ pc' = [pc EXCEPT ![w] = "INSUFFICIENT"]
                    /\ response' = [response EXCEPT ![w] = InsufficientResponse(audio_info)]
                    /\ local' = [local EXCEPT ![w] = NoLocals]
               ELSE /\ pc' = [pc EXCEPT ![w] = "CONCATENATE"]
                    /\ local' = [local EXCEPT ![w].audio_info = audio_info]
                    /\ UNCHANGED response
    /\ UNCHANGED <<API_KEY, bucket, voices, served, request>>

\* ------------------------------------------------------------- call_pyglue
\* What requests.post to pyglue can do: answer, or raise (timeout after 120,
\* transport failure).
PyglueReplies ==
    {[raised |-> FALSE, status_code |-> 200, content |-> "ID3-audio-bytes"],
     [raised |-> FALSE, status_code |-> 200, content |-> ""],
     [raised |-> FALSE, status_code |-> 500, content |-> "Internal Server Error"],
     [raised |-> TRUE, status_code |-> 0, content |-> ""]}

\* Mutant: the status code is not looked at.
CallPyglueAnyStatus(reply) == IF reply.raised THEN NoneVal ELSE reply.content

\* call_pyglue(user_id), given what the POST did: the value returned.
CallPyglue(reply) ==
    IF reply.raised THEN NoneVal
    ELSE IF reply.status_code = 200 THEN reply.content
    ELSE NoneVal

ConcatFailedResponse ==
    [status |-> 500, success |-> FALSE, error |-> "Failed to concatenate audio files"]

\* Step 3 (lines 247-253).
\* Mutant: the result is tested with `is None`, which lets an empty payload by.
ConcatenateIsNone(w) ==
    /\ pc[w] = "CONCATENATE"
    /\ \E reply \in PyglueReplies :
        LET concatenated_audio == CallPyglue(reply) IN
        /\ calls' = [calls EXCEPT ![w] =
               Append(@, [op |-> "pyglue", arg |-> local[w].user_id, reply |-> reply])]
        /\ IF concatenated_audio = NoneVal
           THEN /\ pc' = [pc EXCEPT ![w] = "CONCAT_FAILED"]
                /\ response' = [response EXCEPT ![w] = ConcatFailedResponse]
                /\ local' = [local EXCEPT ![w] = NoLocals]
           ELSE /\ pc' = [pc EXCEPT ![w] = "NAME_LOOKUP"]
                /\ local' = [local EXCEPT ![w].concatenated_audio = concatenated_audio]
                /\ UNCHANGED response
    /\ UNCHANGED <<API_KEY, bucket, voices, served, request>>

\* Mutant: the failure branch builds its response but does not return.
ConcatenateNoReturn(w) ==
    /\ pc[w] = "CONCATENATE"
    /\ \E reply \in PyglueReplies :
        LET concatenated_audio == CallPyglue(reply) IN
        /\ calls' = [calls EXCEPT ![w] =
               Append(@, [op |-> "pyglue", arg |-> local[w].user_id, reply |-> reply])]
        /\ response' = IF ~Truthy(concatenated_audio)
                       THEN [response EXCEPT ![w] = ConcatFailedResponse]
                       ELSE response
        /\ pc' = [pc EXCEPT ![w] = "NAME_LOOKUP"]
        /\ local' = [local EXCEPT ![w].concatenated_audio = concatenated_audio]
    /\ UNCHANGED <<API_KEY, bucket, voices, served, request>>

Concatenate(w) ==
    /\ pc[w] = "CONCATENATE"
    /\ \E reply \in PyglueReplies :
        LET concatenated_audio == CallPyglue(reply) IN
        /\ calls' = [calls EXCEPT ![w] =
               Append(@, [op |-> "pyglue", arg |-> local[w].user_id, reply |-> reply])]
        /\ IF ~Truthy(concatenated_audio)
           THEN /\ pc' = [pc EXCEPT ![w] = "CONCAT_FAILED"]
                /\ response' = [response EXCEPT ![w] = ConcatFailedResponse]
                /\ local' = [local EXCEPT ![w] = NoLocals]
           ELSE /\ pc' = [pc EXCEPT ![w] = "NAME_LOOKUP"]
                /\ local' = [local EXCEPT ![w].concatenated_audio = concatenated_audio]
                /\ UNCHANGED response
    /\ UNCHANGED <<API_KEY, bucket, voices, served, request>>

\* ----------------------------------------------------------- get_user_name
\* What reading the credentials record can find.  The record belongs to
\* another service; each read may find any of these.
CredsReads ==
    {[state |-> "absent"],
     [state |-> "exists_raises"],
     [state |-> "download_raises"],
     [state |-> "text"],
     [state |-> "json", doc |-> [email |-> "ann@example.com"]],
     [state |-> "json", doc |-> [firstName |-> "Ann", lastName |-> "Lee"]]}

\* Mutant: the lookup's failure is passed on as empty names.
GetUserNameNoDefault(read) ==
    IF read.state = "json"
    THEN <<Get(read.doc, "firstName", "User"), Get(read.doc, "lastName", "Voice")>>
    ELSE <<"", "">>

\* get_user_name(user_id), given the read: <<first_name, last_name>>.
GetUserName(read) ==
    IF read.state = "json"
    THEN <<Get(read.doc, "firstName", "User"), Get(read.doc, "lastName", "Voice")>>
    ELSE <<"User", "Voice">>

\* f"{first_name} {last_name}"
VoiceName(first_name, last_name) == first_name \o " " \o last_name

\* Step 4 (lines 255-258).
NameLookupWith(w, read) ==
    /\ pc[w] = "NAME_LOOKUP"
    /\ LET name == GetUserName(read) IN
       local' = [local EXCEPT ![w].first_name = name[1], ![w].last_name = name[2]]
    /\ calls' = [calls EXCEPT ![w] =
           Append(@, [op |-> "read", arg |-> CredsPath(local[w].user_id)])]
    /\ pc' = [pc EXCEPT ![w] = "CLONE"]
    /\ UNCHANGED <<API_KEY, bucket, voices, served, request, response>>

NameLookup(w) == \E read \in CredsReads : NameLookupWith(w, read)

\* -------------------------------------------------- clone_voice_elevenlabs
\* The identifier ElevenLabs gives the n-th voice it creates.
VoiceIdOf(n) == "v" \o ToString(n)

\* What requests.post to ElevenLabs can do, when it has created n voices: a
\* 200 whose JSON carries the new voice's identifier, a 200 whose JSON has
\* no voice_id, a 200 whose body is not JSON, a non-200, or raise (timeout
\* after 60, transport failure).
\* Mutant: the POST has no timeout and the service never answers.
ElevenLabsNeverAnswers(n) == {}

ElevenLabsReplies(n) ==
    {[raised |-> FALSE, status_code |-> 200, json |-> TRUE, doc |-> [voice_id |-> VoiceIdOf(n + 1)]],
     [raised |-> FALSE, status_code |-> 200, json |-> TRUE, doc |-> [detail |-> "queued"]],
     [raised |-> FALSE, status_code |-> 200, json |-> FALSE, doc |-> [detail |-> "html"]],
     [raised |-> FALSE, status_code |-> 401, json |-> TRUE, doc |-> [detail |-> "invalid_api_key"]],
     [raised |-> TRUE, status_code |-> 0, json |-> FALSE, doc |-> [detail |-> "timeout"]]}

\* Mutant: a missing voice_id is replaced by a default.
CloneVoiceDefaultId(reply) ==
    IF reply.raised THEN NoneVal
    ELSE IF reply.status_code = 200
         THEN IF reply.json THEN Get(reply.doc, "voice_id", "unknown") ELSE NoneVal
    ELSE NoneVal

\* clone_voice_elevenlabs(...), given what the POST did: the value returned.
CloneVoiceElevenlabs(reply) ==
    IF reply.raised THEN NoneVal
    ELSE IF reply.status_code = 200
         THEN IF reply.json THEN Get(reply.doc, "voice_id", NoneVal) ELSE NoneVal
    ELSE NoneVal

CloneFailedResponse ==
    [status |-> 500, success |-> FALSE, error |-> "Failed to clone voice on ElevenLabs"]

\* Step 5 (lines 260-272).
\* Mutant: a failed cloning call is tried again.
CloneRetry(w) ==
    /\ pc[w] = "CLONE"
    /\ \E reply \in ElevenLabsReplies(voices) :
        LET voice_id == CloneVoiceElevenlabs(reply) IN
        /\ voices' = IF "voice_id" \in DOMAIN reply.doc THEN voices + 1 ELSE voices
        /\ calls' = [calls EXCEPT ![w] =
               Append(@, [op |-> "elevenlabs", arg |-> local[w].user_id,
                          audio |-> local[w].concatenated_audio, reply |-> reply])]
        /\ IF ~Truthy(voice_id)
           THEN UNCHANGED <<pc, local>>
           ELSE /\ pc' = [pc EXCEPT ![w] = "PERSIST"]
                /\ local' = [local EXCEPT ![w].voice_id = voice_id]
        /\ UNCHANGED response
    /\ UNCHANGED <<API_KEY, bucket, served, request>>

Clone(w) ==
    /\ pc[w] = "CLONE"
    /\ \E reply \in ElevenLabsReplies(voices) :
        LET voice_id == CloneVoiceElevenlabs(reply) IN
        /\ voices' = IF "voice_id" \in DOMAIN reply.doc THEN voices + 1 ELSE voices
        /\ calls' = [calls EXCEPT ![w] =
               Append(@, [op |-> "elevenlabs", arg |-> local[w].user_id,
                          audio |-> local[w].concatenated_audio, reply |-> reply])]
        /\ IF ~Truthy(voice_id)
           THEN /\ pc' = [pc EXCEPT ![w] = "CLONE_FAILED"]
                /\ response' = [response EXCEPT ![w] = CloneFailedResponse]
                /\ local' = [local EXCEPT ![w] = NoLocals]
           ELSE /\ pc' = [pc EXCEPT ![w] = "PERSIST"]
                /\ local' = [local EXCEPT ![w].voice_id = voice_id]
                /\ UNCHANGED response
    /\ UNCHANGED <<API_KEY, bucket, served, request>>

\* ----------------------------------------------------------- save_voice_id
\* blob.upload_from_string either stores the document or raises.
UploadOutcomes == {"ok", "raises"}

\* The bucket after save_voice_id(user_id, voice_id).
\* Mutant: the marker is created only when the path is still empty.
SaveVoiceIdIfAbsent(b, user_id, voice_id, outcome) ==
    IF outcome = "ok" /\ b[VoiceIdPath(user_id)] = NoBlob
    THEN [b EXCEPT ![VoiceIdPath(user_id)] =
              [kind |-> "json", doc |-> VoiceIdData(user_id, voice_id)]]
    ELSE b

SaveVoiceId(b, user_id, voice_id, outcome) ==
    IF outcome = "ok"
    THEN [b EXCEPT ![VoiceIdPath(user_id)] =
              [kind |-> "json", doc |-> VoiceIdData(user_id, voice_id)]]
    ELSE b

\* Mutant: the identifier is left out of the response.
SaveFailedResponseNoId(voice_id) ==
    [status |-> 500, success |-> FALSE, error |-> "Failed to save voice_id to storage"]

SaveFailedResponse(voice_id) ==
    [status |-> 500, success |-> FALSE, error |-> "Failed to save voice_id to storage",
     voice_id |-> voice_id]

\* `audio_duration` is in tenths of a second.
SuccessResponse(l) ==
    [status |-> 200, success |-> TRUE, message |-> "Voice cloned successfully",
     voice_id |-> l.voice_id, user_id |-> l.user_id,
     voice_name |-> VoiceName(l.first_name, l.last_name),
     audio_duration |-> Round1(l.audio_info.duration_seconds),
     file_count |-> l.audio_info.file_count]

\* Steps 6 and 7 (lines 274-299).
Persist(w) ==
    /\ pc[w] = "PERSIST"
    /\ \E outcome \in UploadOutcomes :
        /\ bucket' = SaveVoiceId(bucket, local[w].user_id, local[w].voice_id, outcome)
        /\ calls' = [calls EXCEPT ![w] =
               Append(@, [op |-> "write", arg |-> VoiceIdPath(local[w].user_id),
                          voice_id |-> local[w].voice_id, outcome |-> outcome])]
        /\ IF outcome # "ok"
           THEN /\ pc' = [pc EXCEPT ![w] = "SUCCESS_WITH_PERSIST_WARNING"]
                /\ response' = [response EXCEPT ![w] = SaveFailedResponse(local[w].voice_id)]
           ELSE /\ pc' = [pc EXCEPT ![w] = "SUCCESS"]
                /\ response' = [response EXCEPT ![w] = SuccessResponse(local[w])]
    /\ local' = [local EXCEPT ![w] = NoLocals]
    /\ UNCHANGED <<API_KEY, voices, served, request>>

\* --------------------------------------------------------------- behaviour
Next ==
    \E w \in Workers :
        \/ Receive(w)
        \/ ReadBody(w)
        \/ CheckVoiceExists(w)
        \/ CalculateAudioDuration(w)
        \/ Concatenate(w)
        \/ NameLookup(w)
        \/ Clone(w)
        \/ Persist(w)

Spec == Init /\ [][Next]_vars

\* The requests of one user one after another, the blob-store reads of the
\* idempotence check answering: a request is taken up for a user only when no
\* other request for that user is in the handler, and blob.exists() and
\* download_as_text() of check_voice_exists do not raise.
OneAtATime(w) ==
    \A o \in Workers \ {w} :
        pc[o] \in {"IDEMPOTENCE_CHECK", "DURATION_CHECK", "CONCATENATE", "NAME_LOOKUP",
                   "CLONE", "PERSIST"}
            => local[o].user_id # local'[w].user_id

SeqNext ==
    \E w \in Workers :
        \/ Receive(w)
        \/ ReadBody(w) /\ OneAtATime(w)
        \/ CheckVoiceExistsWith(w, "ok")
        \/ CalculateAudioDuration(w)
        \/ Concatenate(w)
        \/ NameLookup(w)
        \/ Clone(w)
        \/ Persist(w)

SeqSpec == Init /\ [][SeqNext]_vars

\* The steps the server takes by itself once a request is in the handler:
\* Flask runs the view function to its return. Every call of the function
\* returns or raises: the two POSTs carry a timeout (lines 99 and 131) and
\* the blob-store calls are taken to answer. The arrival of a request is the
\* client's step and is not forced.
HandlerStep(w) ==
    \/ ReadBody(w)
    \/ CheckVoiceExists(w)
    \/ CalculateAudioDuration(w)
    \/ Concatenate(w)
    \/ NameLookup(w)
    \/ Clone(w)
    \/ Persist(w)

FairSpec == Init /\ [][Next]_vars /\ \A w \in Workers : WF_vars(HandlerStep(w))

\* ================================================================== claims
\* Positions in worker w's call log of the calls of kind op.
CallsOf(w, op) == {i \in DOMAIN calls[w] : calls[w][i].op = op}

Called(w, op) == CallsOf(w, op) # {}

\* Some header of the request is present and equals the configured secret.
HasSecret(headers, key) ==
    \/ headers.API_KEY # NoneVal /\ headers.API_KEY = key
    \/ headers.X_API_Key # NoneVal /\ headers.X_API_Key = key

\* The body carries no usable userId: not a JSON object, or userId absent,
\* null or empty.
NoUserId(b) == b.kind # "object" \/ ~Truthy(Get(b.doc, "userId", NoneVal))

\* Indices of the blobs of a listing whose name has a recognized extension.
Recognized(blobs) ==
    {i \in DOMAIN blobs :
        \E suffix \in {".mp3", ".wav", ".webm", ".m4a"} : EndsWith(blobs[i].name, suffix)}

RECURSIVE SizeOver(_, _)
SizeOver(blobs, idx) ==
    IF idx = {} THEN 0
    ELSE LET i == CHOOSE j \in idx : TRUE
         IN blobs[i].size + SizeOver(blobs, idx \ {i})

\* total_bytes of a listing: the sizes of its recognized blobs, summed.
TotalBytes(blobs) == SizeOver(blobs, Recognized(blobs))

\* The identifier ElevenLabs returned to worker w's current request.
ClonedId(w) ==
    LET i == CHOOSE j \in CallsOf(w, "elevenlabs") : TRUE
    IN calls[w][i].reply.doc.voice_id

\* C1 (as claimed): a request whose idempotence check found a marker record
\* in the bucket never calls pyglue and never calls ElevenLabs, whatever the
\* marker holds and whether or not it can be read.
C1_IdempotenceGate ==
    \A w \in Workers : \A i \in CallsOf(w, "check") :
        calls[w][i].present => ~Called(w, "pyglue") /\ ~Called(w, "elevenlabs")

\* C2: a request with no header equal to the configured secret is answered
\* 401 by the decorator: its body is never read, and it makes no bucket call
\* and no collaborator call.
C2_UnauthorizedDoesNothing ==
    \A w \in Workers :
        /\ (request[w] # NoRequest /\ ~HasSecret(request[w].headers, API_KEY))
               => pc[w] = "UNAUTHORIZED"
        /\ pc[w] = "UNAUTHORIZED" =>
               /\ response[w].status = 401
               /\ request[w].body = Unread
               /\ calls[w] = <<>>
               /\ local[w] = NoLocals

C2_Witness ==
    \E w \in Workers :
        /\ pc[w] = "UNAUTHORIZED"
        /\ API_KEY = "k1"
        /\ request[w].headers = [API_KEY |-> "bad", X_API_Key |-> NoneVal]
        /\ response[w].status = 401

\* C3 (as claimed): a request gets past the auth check exactly when its
\* API_KEY header or its X-API-Key header equals the configured secret.
C3_EitherHeaderAccepted ==
    \A w \in Workers :
        request[w] # NoRequest =>
            (pc[w] # "UNAUTHORIZED" <=> HasSecret(request[w].headers, API_KEY))

\* C4 (as claimed): an authorized request whose body carries no userId (not
\* a JSON object, or userId absent, null or empty) is answered 400
\* {error: "Missing userId"} and makes no bucket or collaborator call.
C4_MissingUserId ==
    \A w \in Workers :
        (request[w] # NoRequest /\ request[w].body # Unread /\ NoUserId(request[w].body)) =>
            /\ pc[w] = "MISSING_INPUT"
            /\ response[w] = [status |-> 400, error |-> "Missing userId"]
            /\ calls[w] = <<>>

\* C5: a request whose listing returned ends as "Insufficient audio
\* duration" (400, required 15, with actual and file_count, no collaborator
\* call) exactly when total_bytes < 245760; from 245760 bytes on it goes on
\* to concatenation.
C5_DurationGateBoundary ==
    \A w \in Workers : \A i \in CallsOf(w, "list") :
        ~calls[w][i].raised =>
            IF TotalBytes(calls[w][i].blobs) < 245760
            THEN /\ pc[w] = "INSUFFICIENT"
                 /\ response[w].status = 400
                 /\ response[w].success = FALSE
                 /\ response[w].error = "Insufficient audio duration"
                 /\ response[w].required = 15
                 /\ {"actual", "file_count"} \subseteq DOMAIN response[w]
                 /\ ~Called(w, "pyglue") /\ ~Called(w, "elevenlabs")
            ELSE /\ pc[w] # "INSUFFICIENT"
                 /\ pc[w] = "CONCATENATE" \/ Called(w, "pyglue")

C5_Witness ==
    \E w1 \in Workers, w2 \in Workers :
        /\ \E i \in CallsOf(w1, "list") :
              ~calls[w1][i].raised /\ TotalBytes(calls[w1][i].blobs) = 245760
        /\ Called(w1, "pyglue")
        /\ \E i \in CallsOf(w2, "list") :
              ~calls[w2][i].raised /\ TotalBytes(calls[w2][i].blobs) = 245759
        /\ pc[w2] = "INSUFFICIENT"

\* C6: when pyglue answers non-200 or the call raises (timeout, transport),
\* the request ends 500 "Failed to concatenate audio files", with no
\* voice_id, and never calls ElevenLabs nor writes the marker.
C6_ConcatFailureTerminal ==
    \A w \in Workers : \A i \in CallsOf(w, "pyglue") :
        (calls[w][i].reply.raised \/ calls[w][i].reply.status_code # 200) =>
            /\ pc[w] = "CONCAT_FAILED"
            /\ response[w] = [status |-> 500, success |-> FALSE,
                              error |-> "Failed to concatenate audio files"]
            /\ ~Called(w, "elevenlabs")
            /\ ~Called(w, "write")

C6_Witness ==
    \E w1 \in Workers, w2 \in Workers :
        /\ pc[w1] = "CONCAT_FAILED" /\ pc[w2] = "CONCAT_FAILED"
        /\ \E i \in CallsOf(w1, "pyglue") : calls[w1][i].reply.status_code = 500
        /\ \E i \in CallsOf(w2, "pyglue") : calls[w2][i].reply.raised

\* C7: when ElevenLabs answers non-200, the call raises, or the 200 answer
\* carries no voice_id, the request ends 500 "Failed to clone voice on
\* ElevenLabs" with no voice_id in the response and writes no marker.
C7_CloneFailureTerminal ==
    \A w \in Workers : \A i \in CallsOf(w, "elevenlabs") :
        LET reply == calls[w][i].reply IN
        (reply.raised \/ reply.status_code # 200 \/ "voice_id" \notin DOMAIN reply.doc) =>
            /\ pc[w] = "CLONE_FAILED"
            /\ response[w].status = 500
            /\ response[w].success = FALSE
            /\ response[w].error = "Failed to clone voice on ElevenLabs"
            /\ "voice_id" \notin DOMAIN response[w]
            /\ ~Called(w, "write")

C7_Witness ==
    \E w \in Workers : \E i \in CallsOf(w, "elevenlabs") :
        /\ calls[w][i].reply.status_code = 200
        /\ calls[w][i].reply.json
        /\ "voice_id" \notin DOMAIN calls[w][i].reply.doc
        /\ pc[w] = "CLONE_FAILED"

\* C8: when ElevenLabs returned an identifier and the marker write then
\* fails, the request ends 500, success false, "Failed to save voice_id to
\* storage", and the response carries the identifier ElevenLabs returned.
C8_PersistFailureKeepsId ==
    \A w \in Workers : \A i \in CallsOf(w, "write") :
        calls[w][i].outcome = "raises" =>
            /\ pc[w] = "SUCCESS_WITH_PERSIST_WARNING"
            /\ response[w] = [status |-> 500, success |-> FALSE,
                              error |-> "Failed to save voice_id to storage",
                              voice_id |-> ClonedId(w)]

C8_Witness ==
    \E w \in Workers : \E i \in CallsOf(w, "write") :
        /\ calls[w][i].outcome = "raises"
        /\ pc[w] = "SUCCESS_WITH_PERSIST_WARNING"
        /\ response[w].voice_id = "v1"
        /\ bucket[calls[w][i].arg] = NoBlob

\* C9 (as claimed): once a user's marker record exists, no step of any
\* request writes it again or changes it.
C9_MarkerWriteOnce ==
    [][\A p \in MarkerPaths : bucket[p] # NoBlob => bucket'[p] = bucket[p]]_vars

\* C10: the step that completes a request with SUCCESS returns 200, success
\* true, the identifier ElevenLabs returned, the request's userId, the
\* number of recognized blobs as file_count and the estimate rounded to the
\* nearest tenth as audio_duration (480 KB in 10 files: 30.0 and 10), and
\* leaves the user's marker holding userId and that identifier.
C10_FullSuccess ==
    [][\A w \in Workers :
        (pc[w] = "PERSIST" /\ pc'[w] = "SUCCESS") =>
            LET user_id == local[w].user_id
                v == calls[w][CHOOSE j \in CallsOf(w, "elevenlabs") : TRUE].reply.doc.voice_id
                blobs == calls[w][CHOOSE j \in CallsOf(w, "list") : TRUE].blobs
                total == TotalBytes(blobs)
                r == response'[w]
                d == r.audio_duration * 16384 - 10 * total
                marker == bucket'[VoiceIdPath(user_id)]
            IN
            /\ r.status = 200
            /\ r.success = TRUE
            /\ r.voice_id = v
            /\ r.user_id = user_id
            /\ r.file_count = Cardinality(Recognized(blobs))
            /\ -8192 <= d /\ d <= 8192
            /\ (total = 491520 /\ Len(blobs) = 10) =>
                   r.audio_duration = 300 /\ r.file_count = 10
            /\ marker.kind = "json"
            /\ marker.doc.userId = user_id
            /\ marker.doc.voice_id = v
      ]_vars

C10_Witness ==
    \E w \in Workers : \E i \in CallsOf(w, "list") :
        /\ pc[w] = "SUCCESS"
        /\ ~calls[w][1].present
        /\ calls[w][i].blobs = TenFiles
        /\ response[w].status = 200
        /\ response[w].voice_id = "v1"
        /\ response[w].audio_duration = 300
        /\ response[w].file_count = 10
        /\ bucket[VoiceIdPath(response[w].user_id)].doc.voice_id = "v1"

\* C11: a step that raises what it does not handle itself (get_json(),
\* data.get, list_blobs) ends the request with 500 {success: false, error:
\* <the exception's text>}; the raising call is the request's last one, so
\* no concatenation, cloning or marker write follows.
C11_CatchAll ==
    \A w \in Workers :
        /\ \A i \in CallsOf(w, "list") :
              calls[w][i].raised =>
                  /\ pc[w] = "UNHANDLED_ERROR"
                  /\ response[w] = [status |-> 500, success |-> FALSE,
                                    error |-> "list_blobs failed"]
                  /\ i = Len(calls[w])
        /\ (request[w] # NoRequest /\ request[w].body.kind \in {"unparseable", "null", "array"}) =>
              /\ pc[w] = "UNHANDLED_ERROR"
              /\ response[w] = [status |-> 500, success |-> FALSE,
                                error |-> IF request[w].body.kind = "unparseable"
                                          THEN "400 Bad Request"
                                          ELSE "object has no attribute 'get'"]
              /\ calls[w] = <<>>
        /\ pc[w] = "UNHANDLED_ERROR" =>
              /\ ~Called(w, "pyglue") /\ ~Called(w, "elevenlabs") /\ ~Called(w, "write")
              /\ \/ calls[w] = <<>>
                 \/ calls[w][Len(calls[w])].op = "list" /\ calls[w][Len(calls[w])].raised

C11_Witness ==
    \E w \in Workers :
        /\ pc[w] = "UNHANDLED_ERROR"
        /\ Len(calls[w]) = 2
        /\ calls[w][2].op = "list" /\ calls[w][2].raised
        /\ response[w] = [status |-> 500, success |-> FALSE, error |-> "list_blobs failed"]

\* The request of w went past step 1 because the marker at its path was absent.
PassedOnAbsent(w) ==
    /\ calls[w] # <<>>
    /\ calls[w][1].op = "check"
    /\ ~calls[w][1].present

\* The marker write of w's request that went through, if any.
WritesOk(w) == {i \in CallsOf(w, "write") : calls[w][i].outcome = "ok"}

\* C12: two requests for one user that both found no marker both go on to
\* clone, each gets a voice of its own, and the marker write of the one that
\* persists second replaces the marker the other has just written: the marker
\* then names the second voice while the first request answered with the first.
C12_SameUserRace ==
    [][\A w \in Workers : \A o \in Workers \ {w} :
          ( /\ pc[w] = "PERSIST" /\ pc'[w] = "SUCCESS"
            /\ PassedOnAbsent(w) /\ PassedOnAbsent(o)
            /\ calls[o][1].arg = calls[w][1].arg
            /\ WritesOk(o) # {} )
          => /\ Called(w, "elevenlabs") /\ Called(o, "elevenlabs")
             /\ ClonedId(w) # ClonedId(o)
             /\ voices >= 2
             /\ bucket[calls[w][1].arg].doc.voice_id = ClonedId(o)
             /\ bucket'[calls[w][1].arg].doc.voice_id = ClonedId(w)
             /\ response'[w].voice_id = ClonedId(w)
             /\ response'[o] = response[o]
             /\ response[o].voice_id = ClonedId(o)]_vars

C12_Witness ==
    \E w \in Workers : \E o \in Workers \ {w} :
        /\ pc[w] = "SUCCESS" /\ pc[o] = "SUCCESS"
        /\ PassedOnAbsent(w) /\ PassedOnAbsent(o)
        /\ calls[o][1].arg = calls[w][1].arg
        /\ response[w].voice_id # response[o].voice_id
        /\ bucket[calls[w][1].arg].doc.voice_id = response[w].voice_id
        /\ voices >= 2

\* The terminal states the specification's state machine lists.
ListedTerminals ==
    {"UNAUTHORIZED", "SKIPPED", "INSUFFICIENT", "CONCAT_FAILED", "CLONE_FAILED",
     "SUCCESS", "SUCCESS_WITH_PERSIST_WARNING"}

\* C13, as stated: a request terminates only in one of the listed states.
C13_ListedTerminalsOnly ==
    \A w \in Workers : pc[w] \in Terminal => pc[w] \in ListedTerminals

\* The steps of one request. START is "idle" or the terminal state of the
\* worker's previous request; Receive runs AUTH_CHECK; "HANDLER" is the
\* authorised request before its body is read.
Transitions ==
    (({"idle"} \cup Terminal) \X {"UNAUTHORIZED", "HANDLER"})
    \cup {<<"HANDLER", "IDEMPOTENCE_CHECK">>, <<"HANDLER", "MISSING_INPUT">>,
          <<"HANDLER", "UNHANDLED_ERROR">>,
          <<"IDEMPOTENCE_CHECK", "SKIPPED">>, <<"IDEMPOTENCE_CHECK", "DURATION_CHECK">>,
          <<"DURATION_CHECK", "INSUFFICIENT">>, <<"DURATION_CHECK", "CONCATENATE">>,
          <<"DURATION_CHECK", "UNHANDLED_ERROR">>,
          <<"CONCATENATE", "CONCAT_FAILED">>, <<"CONCATENATE", "NAME_LOOKUP">>,
          <<"NAME_LOOKUP", "CLONE">>,
          <<"CLONE", "CLONE_FAILED">>, <<"CLONE", "PERSIST">>,
          <<"PERSIST", "SUCCESS">>, <<"PERSIST", "SUCCESS_WITH_PERSIST_WARNING">>}

\* Something of worker w's request changes in the step.
Steps(w) ==
    \/ pc'[w] # pc[w]
    \/ response'[w] # response[w]
    \/ calls'[w] # calls[w]
    \/ local'[w] # local[w]
    \/ request'[w] # request[w]

\* C13, amended: every step of a request is a transition of the listed
\* machine extended with two terminal states, MISSING_INPUT (400, from the
\* authorised request before IDEMPOTENCE_CHECK) and UNHANDLED_ERROR (500,
\* from there or from DURATION_CHECK); a request has a response exactly when
\* it is in a terminal state, and after a terminal state the worker's record
\* changes only by the arrival of a new request.
C13_StateMachine ==
    [][\A w \in Workers :
          Steps(w) =>
              /\ <<pc[w], pc'[w]>> \in Transitions
              /\ pc'[w] \in Terminal <=> response'[w] # NoResponse
              /\ pc[w] \in Terminal =>
                    /\ served' = served + 1
                    /\ calls'[w] = <<>>
                    /\ local'[w] = NoLocals]_vars

C13_Witness ==
    \E w \in Workers : \E o \in Workers \ {w} :
        /\ pc[w] = "MISSING_INPUT" /\ response[w].status = 400
        /\ pc[o] = "SUCCESS_WITH_PERSIST_WARNING"
        /\ served >= 2

\* C14: an accepted request that is in the handler always reaches a terminal
\* state, where its response is set.
C14_Terminates ==
    \A w \in Workers :
        (pc[w] \notin Terminal \cup {"idle"})
            ~> (pc[w] \in Terminal /\ response[w] # NoResponse)

\* A request that ended after the timeout (or any other failure) of both the
\* concatenation POST of one request and the cloning POST of another.
C14_Witness ==
    \E w \in Workers : \E o \in Workers \ {w} :
        /\ pc[w] = "CONCAT_FAILED"
        /\ \E i \in CallsOf(w, "pyglue") : calls[w][i].reply.raised
        /\ pc[o] = "CLONE_FAILED"
        /\ \E i \in CallsOf(o, "elevenlabs") : calls[o][i].reply.raised

\* C15: within one request pyglue is called at most once, ElevenLabs at most
\* once and the marker is written at most once, failed calls included.
C15_NoRetry ==
    \A w \in Workers :
        \A op \in {"pyglue", "elevenlabs", "write"} :
            Cardinality(CallsOf(w, op)) <= 1

C15_Witness ==
    \E w \in Workers : \E o \in Workers \ {w} :
        /\ pc[w] = "SUCCESS_WITH_PERSIST_WARNING"
        /\ Cardinality(CallsOf(w, "pyglue")) = 1
        /\ Cardinality(CallsOf(w, "elevenlabs")) = 1
        /\ Cardinality(CallsOf(w, "write")) = 1
        /\ pc[o] = "CLONE_FAILED"
        /\ Cardinality(CallsOf(o, "elevenlabs")) = 1
        /\ \E i \in CallsOf(o, "elevenlabs") : calls[o][i].reply.status_code = 401

\* C16: at NAME_LOOKUP the step to CLONE can be taken whatever the read of the
\* credentials record does, and it is the only thing the lookup does: the
\* request goes to CLONE with no response set. When the record is absent, not
\* readable or not JSON the display name is "User Voice"; so it is when the
\* record holds neither name field.
C16_NameLookupNeverFails ==
    [][\A w \in Workers :
          /\ pc[w] = "NAME_LOOKUP" =>
                \A read \in CredsReads : ENABLED NameLookupWith(w, read)
          /\ \A read \in CredsReads :
                NameLookupWith(w, read) =>
                    /\ pc'[w] = "CLONE"
                    /\ response'[w] = NoResponse
                    /\ ( \/ read.state # "json"
                         \/ DOMAIN read.doc \cap {"firstName", "lastName"} = {} )
                       => VoiceName(local'[w].first_name, local'[w].last_name) = "User Voice"]_vars

C16_Witness ==
    \E w \in Workers : \E o \in Workers \ {w} :
        /\ pc[w] = "SUCCESS" /\ response[w].voice_name = "User Voice"
        /\ pc[o] = "CLONE"
        /\ VoiceName(local[o].first_name, local[o].last_name) = "Ann Lee"

\* The blob path lies under the user's own prefix, "<userId>/".
UnderPrefix(user_id, path) ==
    /\ Len(path) > Len(user_id)
    /\ SubSeq(path, 1, Len(user_id) + 1) = user_id \o "/"

\* The call concerns the user alone: a blob under the user's prefix, or the
\* user's identifier handed to a collaborator.
OwnCall(user_id, call) ==
    IF call.op \in {"pyglue", "elevenlabs"}
    THEN call.arg = user_id
    ELSE UnderPrefix(user_id, call.arg)

InHandler ==
    {"IDEMPOTENCE_CHECK", "DURATION_CHECK", "CONCATENATE", "NAME_LOOKUP", "CLONE", "PERSIST"}

\* C17: each step of a request for user A touches, in the bucket, only blobs
\* under A's prefix, hands only A's identifier to pyglue and ElevenLabs,
\* leaves the markers of every other user as they are and leaves the record
\* (position, locals, call log, response) of every other request as it is:
\* what a request for A reads and answers does not depend on the requests
\* for B.
C17_Isolation ==
    [][\A o \in Workers :
          (pc[o] \in InHandler /\ Steps(o)) =>
              LET user_id == local[o].user_id IN
              /\ \A i \in DOMAIN calls'[o] \ DOMAIN calls[o] : OwnCall(user_id, calls'[o][i])
              /\ \A p \in MarkerPaths :
                    ~UnderPrefix(user_id, p) => bucket'[p] = bucket[p]
              /\ \A w \in Workers \ {o} :
                    /\ pc'[w] = pc[w] /\ local'[w] = local[w]
                    /\ calls'[w] = calls[w] /\ response'[w] = response[w]
                    /\ request'[w] = request[w]]_vars

\* Two requests for different users have run interleaved to SUCCESS and each
\* user's marker names the voice of that user's request.
C17_Witness ==
    \E w \in Workers : \E o \in Workers \ {w} :
        /\ pc[w] = "SUCCESS" /\ pc[o] = "SUCCESS"
        /\ response[w].user_id # response[o].user_id
        /\ bucket[VoiceIdPath(response[w].user_id)].doc = VoiceIdData(response[w].user_id, response[w].voice_id)
        /\ bucket[VoiceIdPath(response[o].user_id)].doc = VoiceIdData(response[o].user_id, response[o].voice_id)
        /\ response[w].voice_id = VoiceIdOf(1) /\ response[o].voice_id = VoiceIdOf(2)
        /\ calls[w][1].arg = VoiceIdPath(response[w].user_id)

\* The marker can be used by the idempotence check: JSON with a voice_id.
ValidMarker(blob) ==
    /\ blob # NoBlob
    /\ blob.kind = "json"
    /\ Truthy(Get(blob.doc, "voice_id", NoneVal))

\* The request of w got a voice from ElevenLabs.
ClonedOk(w) ==
    \E i \in CallsOf(w, "elevenlabs") : "voice_id" \in DOMAIN calls[w][i].reply.doc

\* The user of the request of w, from the path of its idempotence check.
CheckedUser(w) == CHOOSE u \in Users : calls[w][1].arg = VoiceIdPath(u)

\* C18, as stated (its last clause): in a sequence of requests of one user
\* that holds a SUCCESS, ElevenLabs has cloned a voice for that user in no
\* other request.  Stated for the requests that found no marker at all.
C18_ClonedOncePerUser ==
    \A w \in Workers : \A o \in Workers \ {w} :
        (pc[w] = "SUCCESS" /\ ClonedOk(o) /\ PassedOnAbsent(w) /\ PassedOnAbsent(o))
            => CheckedUser(o) # CheckedUser(w)

\* C18, amended: with the requests of a user one after another and the reads
\* of the check answering, a marker that holds a voice_id is never rewritten;
\* a request that ends in SUCCESS with v leaves such a marker, holding v;
\* every check that finds such a marker ends the request 200, skipped, with
\* the marker's voice_id; and ElevenLabs is not called for a user whose
\* marker holds a voice_id.  Requests before the SUCCESS may have cloned.
C18_SequentialIdempotence ==
    [][/\ \A p \in MarkerPaths : ValidMarker(bucket[p]) => bucket'[p] = bucket[p]
       /\ \A w \in Workers :
            /\ (pc[w] = "PERSIST" /\ pc'[w] = "SUCCESS") =>
                  /\ ValidMarker(bucket'[VoiceIdPath(local[w].user_id)])
                  /\ bucket'[VoiceIdPath(local[w].user_id)].doc.voice_id = response'[w].voice_id
            /\ (pc[w] = "IDEMPOTENCE_CHECK" /\ Steps(w)
                  /\ ValidMarker(bucket[VoiceIdPath(local[w].user_id)])) =>
                  /\ pc'[w] = "SKIPPED"
                  /\ response'[w].status = 200
                  /\ response'[w].skipped
                  /\ response'[w].voice_id = bucket[VoiceIdPath(local[w].user_id)].doc.voice_id
                  /\ bucket' = bucket /\ voices' = voices
            /\ (pc[w] = "CLONE" /\ Steps(w)) =>
                  ~ValidMarker(bucket[VoiceIdPath(local[w].user_id)])]_vars

\* A request ended in SUCCESS and a later request of the same user was skipped
\* with the voice_id of the first.
C18_Witness ==
    \E w \in Workers : \E o \in Workers \ {w} :
        /\ pc[w] = "SUCCESS" /\ pc[o] = "SKIPPED"
        /\ CheckedUser(o) = response[w].user_id
        /\ response[o].voice_id = response[w].voice_id
        /\ response[o].skipped

\* C19 (its premise): when a request ends in SUCCESS_WITH_PERSIST_WARNING no
\* marker record exists for its user, which is why the next request of that
\* user is not skipped and clones again.
C19_NoMarkerAfterWarning ==
    [][\A w \in Workers :
          (pc[w] = "PERSIST" /\ pc'[w] = "SUCCESS_WITH_PERSIST_WARNING")
              => bucket'[VoiceIdPath(local[w].user_id)] = NoBlob]_vars

\* C20: ElevenLabs is called by a request only with the non-empty payload
\* that pyglue returned with status 200 earlier in that request, for the same
\* user (a 200 with an empty payload ends the request as CONCAT_FAILED); a
\* marker write of a request carries the non-empty voice_id ElevenLabs
\* returned earlier in that request and goes to the marker path of the user
\* the voice was cloned for; and every JSON marker in the bucket holds a
\* non-empty voice_id that was there from the start or that ElevenLabs
\* returned, under the user of its path.
C20_GuardedEffects ==
    /\ \A w \in Workers :
        /\ \A i \in CallsOf(w, "elevenlabs") :
              \E j \in CallsOf(w, "pyglue") :
                  /\ j < i
                  /\ ~calls[w][j].reply.raised
                  /\ calls[w][j].reply.status_code = 200
                  /\ calls[w][j].reply.content # ""
                  /\ calls[w][i].audio = calls[w][j].reply.content
                  /\ calls[w][i].arg = calls[w][j].arg
        /\ \A j \in CallsOf(w, "pyglue") :
              (~calls[w][j].reply.raised /\ calls[w][j].reply.status_code = 200
                  /\ calls[w][j].reply.content = "")
                  => pc[w] = "CONCAT_FAILED" /\ j = Len(calls[w])
        /\ \A k \in CallsOf(w, "write") :
              /\ calls[w][k].voice_id \notin {NoneVal, ""}
              /\ \E i \in CallsOf(w, "elevenlabs") :
                    /\ i < k
                    /\ ~calls[w][i].reply.raised
                    /\ calls[w][i].reply.status_code = 200
                    /\ "voice_id" \in DOMAIN calls[w][i].reply.doc
                    /\ calls[w][i].reply.doc.voice_id = calls[w][k].voice_id
                    /\ calls[w][k].arg = calls[w][i].arg \o "/voice_id/voice_id.json"
    /\ \A u \in Users :
          LET blob == bucket[VoiceIdPath(u)] IN
          (blob # NoBlob /\ blob.kind = "json") =>
              /\ blob.doc.voice_id \in {VoiceIdOf(n) : n \in 0..voices}
              /\ blob.doc.voice_id # ""
              /\ blob.doc.userId = u

C20_Witness ==
    \E w \in Workers : \E o \in Workers \ {w} :
        /\ pc[w] = "SUCCESS"
        /\ \E k \in CallsOf(w, "write") :
              /\ calls[w][k].outcome = "ok"
              /\ bucket[calls[w][k].arg].doc.voice_id = calls[w][k].voice_id
              /\ calls[w][k].voice_id = ClonedId(w)
        /\ pc[o] = "CONCAT_FAILED"
        /\ \E j \in CallsOf(o, "pyglue") :
              calls[o][j].reply.status_code = 200 /\ calls[o][j].reply.content = ""
====
